---- MODULE Spec2Model ----
(***************************************************************************)
(* Model of the schedule API's cache/query core (src/main.py):             *)
(* get_parsed_data, check_cache_validity, refresh_cache, get_cached_data   *)
(* and the admin refresh handler, run by concurrent request threads        *)
(* against an external record store and a wall clock.                      *)
(*                                                                         *)
(* Spec   : the concurrent system (threads, store, clock, cache globals).  *)
(* SpecFn : the pure functions applied to inputs drawn from bounded sets.  *)
(***************************************************************************)
EXTENDS Integers, Sequences, FiniteSets, TLC

\* ------------------------------------------------------------------ bounds
MaxTime == 2       \* clock values and row timestamps range over 0..MaxTime
MaxRows == 2       \* rows in the store

\* -------------------------------------------------------- program constants
DefaultTTL == 300  \* CACHE_TTL default
None == -1         \* Python None for an optional timestamp (times are >= 0)

Threads == {1, 2}
Times == 0..MaxTime
BucketNames == {"previous", "upnext", "now", "all"}

\* ------------------------------------------------------------ dict helpers
\* d.get(key, [])
DictGet(d, key) == IF key \in DOMAIN d THEN d[key] ELSE <<>>

\* {**a, **b}: keys of b override keys of a
DictMerge(a, b) == b @@ a

\* datetime.isoformat(): a timestamp rendered as text
isoformat(t) == <<"iso8601", t>>

\* ----------------------------------------------------------------- payloads
P_OBJ == "{\"title\": \"Morning News\", \"description\": \"Daily news briefing\"}"
P_OBJ2 == "{\"title\": \"Afternoon Show\"}"
P_BAD == "not json"
P_LIST == "[1, 2]"
Payloads == {P_OBJ, P_OBJ2, P_BAD, P_LIST}

\* json.loads: kind "dict" for a JSON object, "other" for any other JSON
\* value (list, number, string, null), "error" for JSONDecodeError
json_loads(s) ==
    CASE s = P_OBJ -> [kind |-> "dict",
                       value |-> [title |-> "Morning News",
                                  description |-> "Daily news briefing"]]
      [] s = P_OBJ2 -> [kind |-> "dict", value |-> [title |-> "Afternoon Show"]]
      [] s = P_LIST -> [kind |-> "other", value |-> <<1, 2>>]
      [] OTHER -> [kind |-> "error", value |-> <<>>]

\* A Schedule row
Row(id, start, stop, data) == [id |-> id, start |-> start, stop |-> stop, data |-> data]

\* Outcome of a call: a value, or an exception that propagates
Returned(v) == [raised |-> FALSE, value |-> v]
Raised == [raised |-> TRUE, value |-> <<>>]

\* ** applied to a value that is not a mapping raises TypeError, which the
\* handler for json.JSONDecodeError does not catch
unpack_non_mapping(base, item) == Raised

get_parsed_data(schedule_item) ==
    LET loaded == json_loads(schedule_item.data)
        base == [id |-> schedule_item.id,
                 start |-> isoformat(schedule_item.start),
                 stop |-> isoformat(schedule_item.stop)]
    IN  IF loaded.kind = "error"
        THEN Returned(DictMerge(base, [raw_data |-> schedule_item.data]))
        ELSE IF loaded.kind = "dict"
        THEN Returned(DictMerge(base, loaded.value))
        ELSE unpack_non_mapping(base, schedule_item)

\* ---------------------------------------------------------------- validity
\* db is the outcome of the MAX(COALESCE(updated_at, created_at, now)) query:
\* failed (the except branch) or a timestamp / None
\* variant: expiry already at cache_age = ttl
ttl_expired_inclusive(ttl, cache_age) == ttl > 0 /\ cache_age >= ttl

ttl_expired(ttl, cache_age) == ttl > 0 /\ cache_age > ttl

\* variant: a failed timestamp query counts as a newer store
db_is_newer_or_failed(db, last) == db.failed \/ (db.ts # None /\ db.ts > last)

db_is_newer(db, last) == ~db.failed /\ db.ts # None /\ db.ts > last

\* variant: a store timestamp equal to the stamp already invalidates
check_cache_validity_db_inclusive(enabled, ttl, last, now, db) ==
    IF ~enabled THEN FALSE
    ELSE IF last = None THEN FALSE
    ELSE IF ttl_expired(ttl, now - last) THEN FALSE
    ELSE IF ~db.failed /\ db.ts # None /\ db.ts >= last THEN FALSE
    ELSE TRUE

check_cache_validity(enabled, ttl, last, now, db) ==
    IF ~enabled THEN FALSE
    ELSE IF last = None THEN FALSE
    ELSE IF ttl_expired(ttl, now - last) THEN FALSE
    ELSE IF db_is_newer(db, last) THEN FALSE
    ELSE TRUE

\* ------------------------------------------------------------ classification
EmptyBuckets == [k \in BucketNames |-> <<>>]

\* variant: the start > now test comes first
bucket_of_upnext_first(item, now) ==
    IF item.start > now THEN "upnext"
    ELSE IF item.stop < now THEN "previous"
    ELSE IF item.start <= now /\ now <= item.stop THEN "now"
    ELSE "none"

\* the if / elif / elif chain of refresh_cache
bucket_of(item, now) ==
    IF item.stop < now THEN "previous"
    ELSE IF item.start > now THEN "upnext"
    ELSE IF item.start <= now /\ now <= item.stop THEN "now"
    ELSE "none"

\* one iteration of the loop of refresh_cache, given the parsed item
classify_item(cd, item, parsed_item, now) ==
    LET b == bucket_of(item, now)
    IN  [k \in DOMAIN cd |->
            IF k = "all" \/ k = b THEN Append(cd[k], parsed_item) ELSE cd[k]]

\* the whole loop of refresh_cache from item i on: the snapshot, or raised
RECURSIVE refresh_loop(_, _, _, _)
refresh_loop(cd, all_items, now, i) ==
    IF i > Len(all_items) THEN Returned(cd)
    ELSE LET p == get_parsed_data(all_items[i])
         IN  IF p.raised THEN Raised
             ELSE refresh_loop(classify_item(cd, all_items[i], p.value, now),
                               all_items, now, i + 1)

\* the per-key filter of the direct scan in get_cached_data
scan_match(key, item, now) ==
    IF key = "previous" /\ item.stop < now THEN TRUE
    ELSE IF key = "upnext" /\ item.start > now THEN TRUE
    ELSE IF key = "now" /\ item.start <= now /\ now <= item.stop THEN TRUE
    ELSE IF key = "all" THEN TRUE
    ELSE FALSE

\* the direct scan loop of get_cached_data: rows that raise are skipped
RECURSIVE direct_scan(_, _, _, _)
direct_scan(all_items, key, now, i) ==
    IF i > Len(all_items) THEN <<>>
    ELSE LET p == get_parsed_data(all_items[i])
             rest == direct_scan(all_items, key, now, i + 1)
         IN  IF ~p.raised /\ scan_match(key, all_items[i], now)
             THEN <<p.value>> \o rest
             ELSE rest

\* ------------------------------------------------------------ time lookups
\* clock units in a calendar day: 00:00:00.000000 is the first unit of a day
\* and 23:59:59.999999 the last
TicksPerDay == 2

\* a datetime: an instant, and whether it carries a UTC offset
DateTime(t, aware) == [t |-> t, aware |-> aware]

\* the text of a `time` query parameter, by its written form:
\*   "date"      2023-01-01
\*   "space"     2023-01-01 10:00
\*   "T"         2023-01-01T10:00:00
\*   "TZ"        2023-01-01T10:00:00Z
\*   "Toff"      2023-01-01T10:00:00+00:00
\*   "spaceoff"  2023-01-01 10:00+00:00
\*   "bad"       text that is neither a timestamp nor a date
TimeStr(form, day, tod) == [form |-> form, day |-> day, tod |-> tod]

\* 'T' in time_str, '+' in time_str, 'Z' in time_str, time_str.count(':')
has_T(time_str) == time_str.form \in {"T", "TZ", "Toff"}
has_plus(time_str) == time_str.form \in {"Toff", "spaceoff"}
has_Z(time_str) == time_str.form = "TZ"
count_colons(time_str) ==
    CASE time_str.form \in {"date", "bad"} -> 0
      [] time_str.form = "space" -> 1
      [] time_str.form \in {"T", "TZ", "spaceoff"} -> 2
      [] OTHER -> 3

\* datetime.fromisoformat(time_str.replace('Z', '+00:00')): aware exactly
\* when the text carries an offset
fromisoformat(time_str) ==
    IF time_str.form = "bad" THEN Raised
    ELSE Returned(DateTime(time_str.day * TicksPerDay + time_str.tod,
                           time_str.form \in {"TZ", "Toff", "spaceoff"}))

\* dateutil's parser.parse: a date alone is midnight of that day; no offset
\* in the text gives a naive datetime
dateutil_parse(time_str) ==
    CASE time_str.form = "bad" -> Raised
      [] time_str.form = "date" -> Returned(DateTime(time_str.day * TicksPerDay, FALSE))
      [] OTHER -> Returned(DateTime(time_str.day * TicksPerDay + time_str.tod,
                                    time_str.form \in {"TZ", "Toff", "spaceoff"}))

\* parsed.replace(hour=0, ...) and parsed.replace(hour=23, minute=59, ...)
start_of_day(dt) == [dt EXCEPT !.t = (dt.t \div TicksPerDay) * TicksPerDay]
end_of_day(dt) == [dt EXCEPT !.t = (dt.t \div TicksPerDay) * TicksPerDay + TicksPerDay - 1]

\* (query_start, query_end), or raised for HTTPException(400)
parse_timestamp_lenient(time_str) ==
    IF has_T(time_str) \/ has_plus(time_str) \/ has_Z(time_str)
    THEN LET dt == fromisoformat(time_str)
         IN  IF dt.raised THEN Raised ELSE Returned(<<dt.value, dt.value>>)
    ELSE LET p == dateutil_parse(time_str)
         IN  IF p.raised THEN Raised
             ELSE LET parsed == IF ~p.value.aware
                                THEN [p.value EXCEPT !.aware = TRUE]
                                ELSE p.value
                  IN  IF count_colons(time_str) = 0 /\ ~has_T(time_str)
                      THEN Returned(<<start_of_day(parsed), end_of_day(parsed)>>)
                      ELSE Returned(<<parsed, parsed>>)

\* datetime.fromisoformat on an entry's "start" / "stop": the rows' columns
\* are DateTime(timezone=True), their isoformat() text carries the offset
entry_time(text) == DateTime(text[2], TRUE)

\* a <= b on datetimes: TypeError when one is naive and the other aware
dt_le(a, b) == IF a.aware # b.aware THEN Raised ELSE Returned(a.t <= b.t)

\* start_time <= query_end and stop_time >= query_start, or raised
overlaps(item, query_start, query_end) ==
    LET c1 == dt_le(entry_time(item["start"]), query_end)
        c2 == dt_le(query_start, entry_time(item["stop"]))
    IN  IF c1.raised \/ c2.raised THEN Raised
        ELSE Returned(c1.value /\ c2.value)

\* the loop of get_schedule_at_time: an item whose test raises is skipped
RECURSIVE overlap_loop(_, _, _, _)
overlap_loop(all_items, query_start, query_end, i) ==
    IF i > Len(all_items) THEN <<>>
    ELSE LET o == overlaps(all_items[i], query_start, query_end)
             rest == overlap_loop(all_items, query_start, query_end, i + 1)
         IN  IF ~o.raised /\ o.value THEN <<all_items[i]>> \o rest ELSE rest

\* get_schedule_at_time, given what get_cached_data("all", db) returned
get_schedule_at_time(time, all_items) ==
    LET w == parse_timestamp_lenient(time)
    IN  IF w.raised THEN Raised
        ELSE Returned(overlap_loop(all_items, w.value[1], w.value[2], 1))

\* ------------------------------------------------------------------- search
\* text as a sequence of characters
UpperCase == <<"A", "B", "C", "D", "E", "F", "G", "H", "I", "J", "K", "L", "M", "N", "O", "P", "Q", "R", "S", "T", "U", "V", "W", "X", "Y", "Z">>
LowerCase == <<"a", "b", "c", "d", "e", "f", "g", "h", "i", "j", "k", "l", "m", "n", "o", "p", "q", "r", "s", "t", "u", "v", "w", "x", "y", "z">>

lower_char(c) ==
    IF \E i \in 1..Len(UpperCase) : UpperCase[i] = c
    THEN LowerCase[CHOOSE i \in 1..Len(UpperCase) : UpperCase[i] = c]
    ELSE c

\* str.lower()
lower(text) == [i \in 1..Len(text) |-> lower_char(text[i])]

\* needle in haystack, on str
contains(haystack, needle) ==
    \E i \in 0..(Len(haystack) - Len(needle)) :
       SubSeq(haystack, i + 1, i + Len(needle)) = needle

\* str(value), as characters, of the field values the payloads carry
str_of(value) ==
    CASE value = "Morning News" -> <<"M", "o", "r", "n", "i", "n", "g", " ", "N", "e", "w", "s">>
      [] value = "Daily news briefing" -> <<"D", "a", "i", "l", "y", " ", "n", "e", "w", "s", " ", "b", "r", "i", "e", "f", "i", "n", "g">>
      [] value = "Afternoon Show" -> <<"A", "f", "t", "e", "r", "n", "o", "o", "n", " ", "S", "h", "o", "w">>
      [] OTHER -> <<>>

\* an Optional[str] query parameter: not given (None), or its text
NoTerm == [given |-> FALSE, text |-> <<>>]
Term(text) == [given |-> TRUE, text |-> text]

\* truth value of an Optional[str]: None and '' are false
truthy(term) == term.given /\ term.text # <<>>

\* variant: the comparison keeps the case of both sides
term_in_field_case_sensitive(term, value) == contains(str_of(value), term.text)

\* term.lower() in str(item[field]).lower()
term_in_field(term, value) == contains(lower(str_of(value)), lower(term.text))

\* the body of the loop of search_schedule for one item
search_match(item, title, description) ==
    \/ truthy(title) /\ "title" \in DOMAIN item /\ term_in_field(title, item["title"])
    \/ /\ truthy(description) /\ "description" \in DOMAIN item
       /\ term_in_field(description, item["description"])

RECURSIVE search_loop(_, _, _, _)
search_loop(all_items, title, description, i) ==
    IF i > Len(all_items) THEN <<>>
    ELSE LET rest == search_loop(all_items, title, description, i + 1)
         IN  IF search_match(all_items[i], title, description)
             THEN <<all_items[i]>> \o rest
             ELSE rest

\* search_schedule, given what get_cached_data("all", db) returned; raised
\* is HTTPException(400)
search_schedule(title, description, all_items) ==
    IF ~truthy(title) /\ ~truthy(description) THEN Raised
    ELSE Returned(search_loop(all_items, title, description, 1))

\* ==================================================================== state
VARIABLES
    CACHE_ENABLED,       \* configuration, fixed for a run
    CACHE_TTL,           \* configuration, fixed for a run
    cache_data,          \* global dict: bucket name -> list of entries
    cache_last_updated,  \* global: None or the time of the last refresh
    cache_lock,          \* 0 (free) or the thread holding the lock
    store,               \* the schedule table: a sequence of rows
    db_modified,         \* greatest updated_at / created_at in the table
    clock,               \* datetime.now(timezone.utc)
    th,                  \* per request thread: position and locals
    last_complete,       \* history: cache_data as the last completed refresh left it
    fn                   \* inputs and outputs of the pure-function checks

vars == <<CACHE_ENABLED, CACHE_TTL, cache_data, cache_last_updated, cache_lock,
          store, db_modified, clock, th, last_complete, fn>>

sysvars == <<CACHE_ENABLED, CACHE_TTL, cache_data, cache_last_updated, cache_lock,
             store, db_modified, clock, th, last_complete>>

EmptyDict == <<>>

\* table contents the concurrent runs start from or are rewritten to: a
\* well-formed row followed by a row with stop < start whose payload is not
\* JSON; a row whose payload is JSON but no object
Stores ==
    { << Row(1, 0, 1, P_OBJ), Row(2, 2, 0, P_BAD) >>,
      << Row(1, 1, 1, P_LIST) >> }

\* CACHE_TTL in clock units: a cache older than one unit has expired
TTLChoices == {1}

Idle == [pc |-> "idle", op |-> "none", key |-> "all", results |-> <<>>,
         now |-> 0, all_items |-> <<>>, i |-> 1,
         ret |-> Returned(<<>>), message |-> "",
         path |-> "none", refresh |-> "none", cause |-> "none",
         pre |-> [data |-> EmptyDict, stamp |-> None]]

\* ------------------------------------------- inputs of the pure functions
FnPayloads == {P_OBJ, P_BAD, P_LIST}

\* (start, stop, payload) of a row
FnRowShapes == Times \X Times \X FnPayloads

\* the table whose i-th row has id i and the i-th shape of f
FnStore(f) == [i \in DOMAIN f |-> Row(i, f[i][1], f[i][2], f[i][3])]

FnTTLs == {-1, 0, DefaultTTL}
FnAges == {0, DefaultTTL - 1, DefaultTTL, DefaultTTL + 1}
FnDbAnswers ==
    { [failed |-> TRUE, ts |-> None], [failed |-> FALSE, ts |-> None] }
    \cup { [failed |-> FALSE, ts |-> x] : x \in 0..(MaxTime + 1) }

\* time strings of every form for the days and times of day the rows span
FnDays == 0..(MaxTime \div TicksPerDay)
FnTimeStrs ==
    { TimeStr(form, day, tod) :
         form \in {"space", "T", "TZ", "Toff", "spaceoff"},
         day \in FnDays, tod \in 0..(TicksPerDay - 1) }
    \cup { TimeStr("date", day, 0) : day \in FnDays }
    \cup { TimeStr("bad", 0, 0) }

\* (start, stop) of a row looked up by time
FnSpans == Times \X Times
FnSpanStore(f) == [i \in DOMAIN f |-> Row(i, f[i][1], f[i][2], P_OBJ)]

\* search terms, and the payloads of the rows searched
FnTerms ==
    { NoTerm, Term(<<>>), Term(<<"n", "e", "w", "s">>), Term(<<"N", "E", "W", "S">>),
      Term(<<"S", "h", "o", "w">>), Term(<<"n", "e", "w", "t">>) }
FnSearchPayloads == {P_OBJ, P_OBJ2, P_BAD}
FnSearchStore(f) == [i \in DOMAIN f |-> Row(i, 0, 0, f[i])]

FnIdle == [pc |-> "off", store |-> <<>>, now |-> 0,
           enabled |-> TRUE, ttl |-> 0, last |-> None, tnow |-> 0,
           db |-> [failed |-> TRUE, ts |-> None],
           parsed |-> Raised, snap |-> Raised, scan |-> EmptyBuckets, valid |-> FALSE,
           time |-> TimeStr("bad", 0, 0), title |-> NoTerm, description |-> NoTerm,
           all_items |-> <<>>, found |-> Raised]

Init ==
    /\ CACHE_ENABLED \in BOOLEAN
    /\ CACHE_TTL \in TTLChoices
    /\ cache_data = EmptyDict
    /\ cache_last_updated = None
    /\ cache_lock = 0
    /\ store \in Stores
    /\ db_modified = 0
    /\ clock = 0
    /\ th = [t \in Threads |-> Idle]
    /\ last_complete = EmptyDict
    /\ fn = FnIdle

\* A handler's return and the delivery of its response are one event: pc =
\* "done" only exposes the returned value, and nothing else happens before
\* Respond has taken it away.
NoneDone == \A u \in Threads : th[u].pc # "done"

\* --------------------------------------------------------------- environment
Tick ==
    /\ NoneDone
    /\ clock < MaxTime
    /\ clock' = clock + 1
    /\ UNCHANGED <<CACHE_ENABLED, CACHE_TTL, cache_data, cache_last_updated,
                   cache_lock, store, db_modified, th, last_complete, fn>>

\* another process rewrites the table; updated_at records when
StoreWrite ==
    /\ NoneDone
    /\ \E s \in Stores \ {store} : store' = s
    /\ db_modified' = clock
    /\ UNCHANGED <<CACHE_ENABLED, CACHE_TTL, cache_data, cache_last_updated,
                   cache_lock, clock, th, last_complete, fn>>

\* the answer of the store to the modification-timestamp query
db_answer(failed) ==
    [failed |-> failed, ts |-> IF Len(store) = 0 THEN None ELSE db_modified]

Set(t, r) == th' = [th EXCEPT ![t] = r]

NoCacheChange == UNCHANGED <<cache_data, cache_last_updated, cache_lock, last_complete>>
NoEnvChange == UNCHANGED <<CACHE_ENABLED, CACHE_TTL, store, db_modified, clock, fn>>
\* a request is dispatched to the first idle worker thread
Dispatch(t) ==
    /\ NoneDone
    /\ th[t].pc = "idle"
    /\ \A u \in Threads : u < t => th[u].pc # "idle"

\* the thread's record once its handler has produced the response: the
\* locals of the call are gone
Done(r, ret, message) ==
    [Idle EXCEPT !.pc = "done", !.op = r.op, !.key = r.key, !.path = r.path,
                 !.refresh = r.refresh, !.cause = r.cause,
                 !.ret = ret, !.message = message]

\* ------------------------------------------------------------ get_cached_data
\* variant: no outer except clause, the store error propagates
get_cached_data_reraise == Raised

\* what get_cached_data returns when the outer except clause fires
get_cached_data_except == Returned(<<>>)

\* variant: no inner try, the refresh error reaches the outer except clause
get_cached_data_refresh_outer_except(results) == Returned(<<>>)

\* what get_cached_data returns after the opportunistic refresh raised
get_cached_data_refresh_except(results) == Returned(results)

\* a handler (/, /previous, /upnext, /now) calls get_cached_data(key, db)
CallGet(t) ==
    /\ Dispatch(t)
    /\ \E key \in BucketNames :
          Set(t, [Idle EXCEPT !.pc = "gcd_check", !.op = "get", !.key = key])
    /\ NoCacheChange /\ NoEnvChange

\* if CACHE_ENABLED and check_cache_validity(db)
GcdCheck(t) ==
    /\ NoneDone
    /\ th[t].pc = "gcd_check"
    /\ \E failed \in BOOLEAN :
          LET valid == check_cache_validity(CACHE_ENABLED, CACHE_TTL,
                           cache_last_updated, clock, db_answer(failed))
          IN  Set(t, [th[t] EXCEPT
                        !.pc = IF CACHE_ENABLED /\ valid THEN "gcd_fast" ELSE "gcd_scan"])
    /\ NoCacheChange /\ NoEnvChange

\* return cache_data.get(key, [])
GcdFast(t) ==
    /\ NoneDone
    /\ th[t].pc = "gcd_fast"
    /\ Set(t, Done([th[t] EXCEPT !.path = "cache"],
                    Returned(DictGet(cache_data, th[t].key)), ""))
    /\ NoCacheChange /\ NoEnvChange

\* now = ...; all_items = db.query(Schedule).all(); the filter loop
GcdScan(t) ==
    /\ NoneDone
    /\ th[t].pc = "gcd_scan"
    /\ \E ok \in BOOLEAN :
          IF ok
          THEN Set(t, [th[t] EXCEPT !.pc = "gcd_recheck", !.path = "scan",
                          !.results = direct_scan(store, th[t].key, clock, 1)])
          ELSE Set(t, Done([th[t] EXCEPT !.path = "scan_failed"],
                          get_cached_data_except, ""))
    /\ NoCacheChange /\ NoEnvChange

\* variant: the opportunistic refresh does not look at CACHE_ENABLED
should_refresh_ignoring_config(enabled, valid) == ~valid

\* the condition of the opportunistic refresh after a direct scan
should_refresh(enabled, valid) == enabled /\ ~valid

\* if CACHE_ENABLED and not check_cache_validity(db): refresh_cache(db)
GcdRecheck(t) ==
    /\ NoneDone
    /\ th[t].pc = "gcd_recheck"
    /\ \E failed \in BOOLEAN :
          LET valid == check_cache_validity(CACHE_ENABLED, CACHE_TTL,
                           cache_last_updated, clock, db_answer(failed))
          IN  IF should_refresh(CACHE_ENABLED, valid)
              THEN Set(t, [th[t] EXCEPT !.pc = "rf_acquire"])
              ELSE Set(t, Done(th[t], Returned(th[t].results), ""))
    /\ NoCacheChange /\ NoEnvChange

\* -------------------------------------------------------------- refresh_cache
\* the thread's record after refresh_cache returned normally
AfterRefresh(r) ==
    IF r.op = "get"
    THEN Done([r EXCEPT !.refresh = "ok"], Returned(r.results), "")
    ELSE Done([r EXCEPT !.refresh = "ok"], Returned(<<>>), "Cache refreshed successfully")

\* the thread's record after refresh_cache raised: get_cached_data catches
\* the exception, manual_cache_refresh lets it propagate
AfterRefreshRaised(r, cause) ==
    IF r.op = "get"
    THEN Done([r EXCEPT !.refresh = "raised", !.cause = cause],
              get_cached_data_refresh_except(r.results), "")
    ELSE Done([r EXCEPT !.refresh = "raised", !.cause = cause], Raised, "")

\* variant: entering the block does not wait for the lock
acquire_ok_unguarded(lock) == TRUE

\* threading.Lock.acquire proceeds only when the lock is free
acquire_ok(lock) == lock = 0

\* variant: the lock stays with the thread when the block is left
with_exit_leaked(t) == t

\* leaving the with block, normally or by an exception, releases the lock
with_exit(t) == 0

\* variant: the buckets already held are kept and appended to
new_cache_data_reused(old) == IF old = EmptyDict THEN EmptyBuckets ELSE old

\* cache_data = {"previous": [], "upnext": [], "now": [], "all": []}
new_cache_data(old) == EmptyBuckets

\* with cache_lock:
RfAcquire(t) ==
    /\ NoneDone
    /\ th[t].pc = "rf_acquire"
    /\ acquire_ok(cache_lock)
    /\ cache_lock' = t
    /\ Set(t, [th[t] EXCEPT !.pc = "rf_query",
                  !.pre = [data |-> cache_data, stamp |-> cache_last_updated]])
    /\ UNCHANGED <<cache_data, cache_last_updated, last_complete>>
    /\ NoEnvChange

\* now = ...; all_items = db.query(Schedule).all(); cache_data = {four empty lists}
RfQuery(t) ==
    /\ NoneDone
    /\ th[t].pc = "rf_query"
    /\ \E ok \in BOOLEAN :
          IF ok
          THEN /\ cache_data' = new_cache_data(cache_data)
               /\ Set(t, [th[t] EXCEPT
                             !.pc = IF Len(store) = 0 THEN "rf_stamp" ELSE "rf_loop",
                             !.now = clock, !.all_items = store, !.i = 1])
               /\ UNCHANGED cache_lock
          ELSE /\ cache_lock' = with_exit(t)
               /\ Set(t, AfterRefreshRaised(th[t], "store"))
               /\ UNCHANGED cache_data
    /\ UNCHANGED <<cache_last_updated, last_complete>>
    /\ NoEnvChange

\* one iteration of: for item in all_items
RfLoop(t) ==
    /\ NoneDone
    /\ th[t].pc = "rf_loop"
    /\ LET r == th[t]
           item == r.all_items[r.i]
           p == get_parsed_data(item)
       IN  IF p.raised
           THEN /\ cache_lock' = with_exit(t)
                /\ Set(t, AfterRefreshRaised(r, "row"))
                /\ UNCHANGED cache_data
           ELSE /\ cache_data' = classify_item(cache_data, item, p.value, r.now)
                /\ Set(t, [r EXCEPT
                              !.pc = IF r.i = Len(r.all_items) THEN "rf_stamp" ELSE "rf_loop",
                              !.i = r.i + 1])
                /\ UNCHANGED cache_lock
    /\ UNCHANGED <<cache_last_updated, last_complete>>
    /\ NoEnvChange

\* cache_last_updated = datetime.now(timezone.utc); the lock is released
RfStamp(t) ==
    /\ NoneDone
    /\ th[t].pc = "rf_stamp"
    /\ cache_last_updated' = clock
    /\ cache_lock' = with_exit(t)
    /\ last_complete' = cache_data
    /\ Set(t, AfterRefresh(th[t]))
    /\ UNCHANGED cache_data
    /\ NoEnvChange

\* ------------------------------------------------------- manual_cache_refresh
CallAdmin(t) ==
    /\ Dispatch(t)
    /\ \E key_ok \in BOOLEAN :
          IF ~key_ok
          THEN Set(t, [Idle EXCEPT !.pc = "done", !.op = "admin", !.ret = Raised,
                                   !.message = "Invalid API key"])
          ELSE IF ~CACHE_ENABLED
          THEN Set(t, [Idle EXCEPT !.pc = "done", !.op = "admin",
                                   !.message = "Cache is disabled"])
          ELSE Set(t, [Idle EXCEPT !.pc = "rf_acquire", !.op = "admin"])
    /\ NoCacheChange /\ NoEnvChange

\* the response is sent; the thread serves the next request
Respond(t) ==
    /\ th[t].pc = "done"
    /\ Set(t, Idle)
    /\ NoCacheChange /\ NoEnvChange

Next ==
    \/ Tick
    \/ StoreWrite
    \/ \E t \in Threads : CallGet(t)
    \/ \E t \in Threads : GcdCheck(t)
    \/ \E t \in Threads : GcdFast(t)
    \/ \E t \in Threads : GcdScan(t)
    \/ \E t \in Threads : GcdRecheck(t)
    \/ \E t \in Threads : RfAcquire(t)
    \/ \E t \in Threads : RfQuery(t)
    \/ \E t \in Threads : RfLoop(t)
    \/ \E t \in Threads : RfStamp(t)
    \/ \E t \in Threads : CallAdmin(t)
    \/ \E t \in Threads : Respond(t)

Spec == Init /\ [][Next]_vars

\* ============================================ the pure functions, applied
InitFn ==
    /\ CACHE_ENABLED = TRUE
    /\ CACHE_TTL = DefaultTTL
    /\ cache_data = EmptyDict
    /\ cache_last_updated = None
    /\ cache_lock = 0
    /\ store = <<>>
    /\ db_modified = 0
    /\ clock = 0
    /\ th = [t \in Threads |-> Idle]
    /\ last_complete = EmptyDict
    /\ \/ \E sh \in FnRowShapes :
             fn = [FnIdle EXCEPT !.pc = "item", !.store = FnStore(<<sh>>)]
       \/ \E n \in 0..MaxRows, now \in Times :
             \E f \in [1..n -> FnRowShapes] :
                fn = [FnIdle EXCEPT !.pc = "rows", !.store = FnStore(f), !.now = now]
       \/ \E e \in BOOLEAN, ttl \in FnTTLs, last \in {None} \cup Times,
             age \in FnAges, db \in FnDbAnswers :
             fn = [FnIdle EXCEPT !.pc = "validity", !.enabled = e, !.ttl = ttl,
                                 !.last = last, !.db = db,
                                 !.tnow = (IF last = None THEN 0 ELSE last) + age]
       \/ \E n \in 0..MaxRows, time \in FnTimeStrs :
             \E f \in [1..n -> FnSpans] :
                fn = [FnIdle EXCEPT !.pc = "time", !.store = FnSpanStore(f),
                                    !.time = time]
       \/ \E n \in 0..MaxRows, title \in FnTerms, description \in FnTerms :
             \E f \in [1..n -> FnSearchPayloads] :
                fn = [FnIdle EXCEPT !.pc = "terms", !.store = FnSearchStore(f),
                                    !.title = title, !.description = description]

\* get_parsed_data on one row
FnDecode ==
    /\ fn.pc = "item"
    /\ fn' = [fn EXCEPT !.pc = "decoded", !.parsed = get_parsed_data(fn.store[1])]
    /\ UNCHANGED sysvars

\* the loop of refresh_cache, and the direct scan of get_cached_data for
\* each key, on the same rows at the same now
FnBuckets ==
    /\ fn.pc = "rows"
    /\ fn' = [fn EXCEPT !.pc = "buckets",
                        !.snap = refresh_loop(EmptyBuckets, fn.store, fn.now, 1),
                        !.scan = [key \in BucketNames |->
                                     direct_scan(fn.store, key, fn.now, 1)]]
    /\ UNCHANGED sysvars

\* check_cache_validity
FnValidity ==
    /\ fn.pc = "validity"
    /\ fn' = [fn EXCEPT !.pc = "checked",
                        !.valid = check_cache_validity(fn.enabled, fn.ttl, fn.last,
                                                       fn.tnow, fn.db)]
    /\ UNCHANGED sysvars

\* get_schedule_at_time on the entries a direct scan for "all" returns
FnLookup ==
    /\ fn.pc = "time"
    /\ LET all_items == direct_scan(fn.store, "all", 0, 1)
       IN  fn' = [fn EXCEPT !.pc = "looked", !.all_items = all_items,
                            !.found = get_schedule_at_time(fn.time, all_items)]
    /\ UNCHANGED sysvars

\* search_schedule on the entries a direct scan for "all" returns
FnSearch ==
    /\ fn.pc = "terms"
    /\ LET all_items == direct_scan(fn.store, "all", 0, 1)
       IN  fn' = [fn EXCEPT !.pc = "searched", !.all_items = all_items,
                            !.found = search_schedule(fn.title, fn.description,
                                                      all_items)]
    /\ UNCHANGED sysvars

NextFn == FnDecode \/ FnBuckets \/ FnValidity \/ FnLookup \/ FnSearch

SpecFn == InitFn /\ [][NextFn]_vars

\* ===================================================================== claims
Buckets3 == {"previous", "now", "upnext"}

InBucket(cd, b, e) == \E j \in 1..Len(cd[b]) : cd[b][j] = e

\* a thread's step that returns from the fast path, and one that finishes the
\* direct scan
FastRead(t) == th[t].pc = "gcd_fast" /\ th'[t].pc = "done"
ScanRead(t) == th[t].pc = "gcd_scan" /\ th'[t].pc = "gcd_recheck"

\* bucket `key` of every complete snapshot a reader may legitimately see: the
\* one the last completed refresh installed, and the one a refresh in
\* progress is going to install
CompleteBuckets(key) ==
    { DictGet(last_complete, key) }
    \cup { DictGet(refresh_loop(EmptyBuckets, th[h].all_items, th[h].now, 1).value, key) :
              h \in { u \in Threads :
                         /\ th[u].pc \in {"rf_loop", "rf_stamp"}
                         /\ ~refresh_loop(EmptyBuckets, th[u].all_items, th[u].now, 1).raised } }

\* C1: a read served from the cache returns a bucket of the complete snapshot
\* of the previous refresh or of the complete snapshot of the refresh in
\* progress, never a bucket that is still being populated.
C1_ReadersSeeCompleteSnapshot ==
    [][\A t \in Threads :
          FastRead(t) => th'[t].ret.value \in CompleteBuckets(th[t].key)]_vars

\* C2: when refresh_cache raises after a snapshot had been installed,
\* cache_data and cache_last_updated are what they were when it started.
C2_FailedRefreshLeavesSnapshot ==
    [][\A t \in Threads :
          (/\ th[t].pc \in {"rf_query", "rf_loop"}
           /\ th'[t].refresh = "raised"
           /\ th[t].pre.stamp # None)
          => (/\ cache_data' = th[t].pre.data
              /\ cache_last_updated' = th[t].pre.stamp)]_vars

\* C3: get_cached_data never raises, and returns an empty sequence when the
\* full-row read of the store fails.
C3_GetCachedDataNeverRaises ==
    \A t \in Threads :
       (th[t].pc = "done" /\ th[t].op = "get")
       => (/\ ~th[t].ret.raised
           /\ th[t].path = "scan_failed" => th[t].ret.value = <<>>)

\* C3 witness: a get_cached_data call whose store read failed has returned.
C3_Witness ==
    \E t \in Threads :
       /\ th[t].pc = "done" /\ th[t].op = "get"
       /\ th[t].path = "scan_failed"
       /\ th[t].ret = Returned(<<>>)

\* C4: for the same rows and the same now, the direct scan for a bucket
\* equals that bucket of the snapshot refresh_cache computes.
C4_ScanEqualsSnapshot ==
    (fn.pc = "buckets" /\ ~fn.snap.raised)
    => \A key \in BucketNames : fn.scan[key] = fn.snap.value[key]

\* every entry of `all` is in exactly one of previous / now / upnext, and the
\* three buckets hold nothing else
Partition(cd) ==
    /\ \A i \in 1..Len(cd["all"]) :
          Cardinality({ b \in Buckets3 : InBucket(cd, b, cd["all"][i]) }) = 1
    /\ Len(cd["previous"]) + Len(cd["now"]) + Len(cd["upnext"]) = Len(cd["all"])

C6_NowIsCurrent ==
    [][\A t \in Threads :
          th[t].key = "now"
          => (/\ FastRead(t) => th'[t].ret.value = direct_scan(store, "now", clock, 1)
              /\ ScanRead(t) => th'[t].results = direct_scan(store, "now", clock, 1))]_vars

\* no answer of the store says it was modified after the cache was computed
NoStoreSignal == fn.db.failed \/ fn.db.ts = None \/ fn.db.ts <= fn.last

\* C7: with CACHE_TTL = 300 and no store signal a cache computed at T is
\* valid up to T + 300 (so at T + 299) and invalid from T + 301 on; with
\* CACHE_TTL <= 0 its age never invalidates it.
C7_TTLBoundary ==
    (fn.pc = "checked" /\ fn.enabled /\ fn.last # None /\ NoStoreSignal)
    => (/\ (fn.ttl = DefaultTTL /\ fn.tnow - fn.last <= DefaultTTL) => fn.valid
        /\ (fn.ttl = DefaultTTL /\ fn.tnow - fn.last > DefaultTTL) => ~fn.valid
        /\ fn.ttl <= 0 => fn.valid)

\* C7 witness: the check ran at T + 301 with CACHE_TTL = 300 and said invalid.
C7_Witness ==
    /\ fn.pc = "checked" /\ fn.enabled /\ fn.last # None /\ NoStoreSignal
    /\ fn.ttl = DefaultTTL
    /\ fn.tnow = fn.last + DefaultTTL + 1
    /\ ~fn.valid

\* the TTL check alone
TTLAloneValid ==
    /\ fn.enabled
    /\ fn.last # None
    /\ ~(fn.ttl > 0 /\ fn.tnow - fn.last > fn.ttl)

C9_DecoderTotal ==
    fn.pc = "decoded"
    => LET r == fn.store[1]
           loaded == json_loads(r.data)
           base == [id |-> r.id, start |-> isoformat(r.start), stop |-> isoformat(r.stop)]
       IN  /\ ~fn.parsed.raised
           /\ loaded.kind = "dict" => fn.parsed.value = DictMerge(base, loaded.value)
           /\ loaded.kind # "dict"
                 => fn.parsed.value = DictMerge(base, [raw_data |-> r.data])

\* C10: a refresh_cache whose store read succeeded completes whatever the
\* payloads of the rows are: no refresh is aborted by a row.
C10_DecodingNeverFailsRefresh ==
    \A t \in Threads : th[t].cause # "row"

\* a thread's step that ends refresh_cache normally, and one in which
\* refresh_cache raises
StampStep(t) == th[t].pc = "rf_stamp" /\ th'[t].pc = "done"
RaiseStep(t) == th[t].pc \in {"rf_query", "rf_loop"} /\ th'[t].refresh = "raised"

\* the threads inside the with block of refresh_cache
InRefresh == { t \in Threads : th[t].pc \in {"rf_query", "rf_loop", "rf_stamp"} }

\* C11: every manual_cache_refresh call with the correct admin key runs
\* refresh_cache, whatever CACHE_ENABLED and the cache state are, and an error
\* of that refresh propagates to the caller.
C11_ForceRefreshUnconditional ==
    \A t \in Threads :
       (th[t].pc = "done" /\ th[t].op = "admin" /\ th[t].message # "Invalid API key")
       => (/\ th[t].refresh # "none"
           /\ th[t].refresh = "raised" => th[t].ret.raised)

\* C12: with CACHE_ENABLED false no get_cached_data call takes the fast path
\* or starts a refresh, every one scans the store, and no step changes
\* cache_data or cache_last_updated.
C12_DisabledNeverUsesCache ==
    [][~CACHE_ENABLED
       => (/\ \A t \in Threads :
                 /\ th'[t].pc \notin {"gcd_fast", "rf_acquire", "rf_query", "rf_loop", "rf_stamp"}
                 /\ (th'[t].pc = "done" /\ th'[t].op = "get")
                       => th'[t].path \in {"scan", "scan_failed"}
                 /\ (th[t].pc = "gcd_check" /\ th'[t].pc # "gcd_check")
                       => th'[t].pc = "gcd_scan"
           /\ cache_data' = cache_data
           /\ cache_last_updated' = cache_last_updated)]_vars

\* C12 witness: with CACHE_ENABLED false a read has returned the rows of a
\* direct scan while the cache was never filled.
C12_Witness ==
    /\ ~CACHE_ENABLED
    /\ cache_data = EmptyDict /\ cache_last_updated = None
    /\ \E t \in Threads :
          /\ th[t].pc = "done" /\ th[t].op = "get" /\ th[t].path = "scan"
          /\ th[t].ret.value # <<>>

\* C13: once the direct scan of a get_cached_data call has succeeded, the
\* call returns exactly the scan's result, whether the refresh it triggers
\* succeeds or raises.
C13_RefreshFailureKeepsResult ==
    [][\A t \in Threads :
          (th[t].op = "get" /\ th[t].path = "scan" /\ th[t].pc # "done"
           /\ th'[t] # th[t])
          => IF th'[t].pc = "done"
             THEN th'[t].ret = Returned(th[t].results)
             ELSE th'[t].results = th[t].results]_vars

\* C13 witness: a read whose direct scan found rows has returned them after
\* its refresh raised.
C13_Witness ==
    \E t \in Threads :
       /\ th[t].pc = "done" /\ th[t].op = "get" /\ th[t].path = "scan"
       /\ th[t].refresh = "raised"
       /\ ~th[t].ret.raised /\ th[t].ret.value # <<>>

\* C17: cache_lock is held only by a thread inside the with block of
\* refresh_cache, and a step in which refresh_cache raises (store read error
\* or row error) leaves it free.
C17_LockReleasedOnFailure ==
    [][/\ \A t \in Threads : RaiseStep(t) => cache_lock' = 0
       /\ cache_lock' # 0 => cache_lock' \in InRefresh']_vars

\* C17 witness: a refresh raised on a row and the lock is free.
C17_Witness ==
    /\ cache_lock = 0
    /\ \E t \in Threads :
          th[t].pc = "done" /\ th[t].refresh = "raised" /\ th[t].cause = "row"

\* the store has not been written since the cache was stamped
StoreUnchangedSince == db_modified <= cache_last_updated

\* C18: with caching enabled, the refresh of a fallback read that completes
\* leaves a full snapshot with cache_last_updated set, and a get_cached_data
\* call that checks the cache within the TTL with the store unchanged takes
\* the fast path instead of scanning.
C18_FallbackMakesCacheUsable ==
    [][\A t \in Threads :
          /\ (StampStep(t) /\ th[t].op = "get")
                => (/\ cache_last_updated' = clock
                    /\ cache_data' = refresh_loop(EmptyBuckets, th[t].all_items,
                                                   th[t].now, 1).value)
          /\ (/\ CACHE_ENABLED
              /\ th[t].pc = "gcd_check" /\ th'[t].pc # "gcd_check"
              /\ cache_last_updated # None
              /\ clock - cache_last_updated <= CACHE_TTL
              /\ StoreUnchangedSince)
                => th'[t].pc = "gcd_fast"]_vars

\* C18 witness: a fallback read has completed with its refresh done, and a
\* later call, one clock unit after the stamp, is on the fast path.
C18_Witness ==
    /\ CACHE_ENABLED
    /\ cache_last_updated # None /\ clock = cache_last_updated + 1
    /\ StoreUnchangedSince
    /\ \E t \in Threads : th[t].pc = "gcd_fast"
    /\ cache_data \in { refresh_loop(EmptyBuckets, s, cache_last_updated, 1).value :
                           s \in Stores }
    /\ Len(cache_data["all"]) > 0

\* C19: a refresh that starts from the snapshot a refresh of the same rows at
\* the same now yields installs buckets with identical contents.
C19_RefreshIdempotent ==
    [][\A t \in Threads :
          (/\ StampStep(t)
           /\ th[t].pre.data = refresh_loop(EmptyBuckets, th[t].all_items,
                                            th[t].now, 1).value)
          => cache_data' = th[t].pre.data]_vars

\* C19 witness: a second refresh of unchanged rows at the same now has
\* rebuilt the buckets it started from, and they are not empty.
C19_Witness ==
    \E t \in Threads :
       /\ th[t].pc = "rf_stamp"
       /\ th[t].pre.stamp # None
       /\ th[t].pre.data = refresh_loop(EmptyBuckets, th[t].all_items, th[t].now, 1).value
       /\ cache_data = th[t].pre.data
       /\ Len(cache_data["all"]) = MaxRows

\* C20: at most one thread is inside the with block of refresh_cache,
\* cache_last_updated never decreases, and the snapshot a refresh stamps is
\* the one computed from the latest read of the store by any refresh.
C20_RefreshesExclusiveAndOrdered ==
    [][/\ Cardinality(InRefresh') <= 1
       /\ cache_last_updated' >= cache_last_updated
       /\ \A t \in Threads :
             StampStep(t)
             => (/\ InRefresh = {t}
                 /\ cache_data' = refresh_loop(EmptyBuckets, th[t].all_items,
                                                th[t].now, 1).value)]_vars

\* C20 witness: one thread is inside refresh_cache with the lock while the
\* other waits to enter, after a refresh has already been stamped.
C20_Witness ==
    /\ cache_last_updated # None
    /\ \E t, u \in Threads :
          /\ t # u
          /\ th[t].pc = "rf_loop" /\ cache_lock = t
          /\ th[u].pc = "rf_acquire"

\* the zoneless written forms, and the same instant written with an offset
ZonelessForms == {"date", "space", "T"}
WithUTCOffset(time) ==
    IF time.form = "T" THEN [time EXCEPT !.form = "TZ"]
    ELSE [time EXCEPT !.form = "spaceoff"]

\* first and last instant of the query window: the whole day for a date, the
\* instant itself otherwise
Window(time) ==
    IF time.form = "date"
    THEN <<time.day * TicksPerDay, time.day * TicksPerDay + TicksPerDay - 1>>
    ELSE <<time.day * TicksPerDay + time.tod, time.day * TicksPerDay + time.tod>>

\* entry.start <= window.end and entry.stop >= window.start
InWindow(e, w) == e["start"][2] <= w[2] /\ e["stop"][2] >= w[1]

\* C14: a lookup with a zoneless time string (date only, date and HH:MM,
\* date T time) returns what the lookup returns for the same instant written
\* with an explicit UTC offset, or for the same day taken in UTC.
C14_ZonelessIsUTC ==
    (fn.pc = "looked" /\ fn.time.form \in ZonelessForms)
    => fn.found =
          IF fn.time.form = "date"
          THEN Returned(overlap_loop(fn.all_items,
                                     DateTime(Window(fn.time)[1], TRUE),
                                     DateTime(Window(fn.time)[2], TRUE), 1))
          ELSE get_schedule_at_time(WithUTCOffset(fn.time), fn.all_items)

\* C15: a lookup whose time string parses returns exactly the entries of
\* `all` that overlap the query window, the instant itself or the whole day.
C15_LookupIsOverlap ==
    (fn.pc = "looked" /\ fn.time.form # "bad")
    => (/\ ~fn.found.raised
        /\ fn.found.value =
              SelectSeq(fn.all_items, LAMBDA e : InWindow(e, Window(fn.time))))

\* a term counts as supplied when it is given and not the empty text
Supplied(term) == term.given /\ term.text # <<>>

\* term occurs in text, letters compared without regard to case
SubstringNoCase(term, text) ==
    \E off \in 0..(Len(text) - Len(term)) :
       \A k \in 1..Len(term) : lower_char(text[off + k]) = lower_char(term[k])

MatchesField(e, field, term) ==
    Supplied(term) /\ field \in DOMAIN e /\ SubstringNoCase(term.text, str_of(e[field]))

\* C16: search fails when neither title nor description is supplied;
\* otherwise it returns exactly the entries of `all` that have a field in
\* which its supplied term occurs, case ignored; an entry without the field
\* does not match on it.
C16_SearchBySubstring ==
    fn.pc = "searched"
    => IF ~Supplied(fn.title) /\ ~Supplied(fn.description)
       THEN fn.found.raised
       ELSE /\ ~fn.found.raised
            /\ fn.found.value =
                  SelectSeq(fn.all_items,
                            LAMBDA e : \/ MatchesField(e, "title", fn.title)
                                       \/ MatchesField(e, "description", fn.description))

\* C16 witness: a search for title "news" found the entry titled
\* "Morning News" and left out an entry that has no title.
C16_Witness ==
    /\ fn.pc = "searched"
    /\ fn.title = Term(<<"n", "e", "w", "s">>) /\ fn.description = NoTerm
    /\ ~fn.found.raised
    /\ \E i \in 1..Len(fn.found.value) :
          /\ "title" \in DOMAIN fn.found.value[i]
          /\ fn.found.value[i]["title"] = "Morning News"
    /\ \E i \in 1..Len(fn.all_items) :
          /\ "title" \notin DOMAIN fn.all_items[i]
          /\ \A j \in 1..Len(fn.found.value) : fn.found.value[j] # fn.all_items[i]

====
